---- MODULE Spec2Model ----
(***************************************************************************)
(* State-machine model of src/FeatureExtractor/SpeechCommands.js: the      *)
(* SpeechCommands feature extractor (example collection, transfer          *)
(* training, streaming classification, load and save).                     *)
(*                                                                         *)
(* Every asynchronous method is split at its awaits: the synchronous part  *)
(* of a call is one action, every later completion (capture finished,      *)
(* epoch ended, blob written, ...) is another.  The transfer recognizer,   *)
(* the blob writer and the top-k helper are collaborators whose code is    *)
(* not part of this file; they are modelled from their documented          *)
(* protocol and are nondeterministic where that protocol leaves the        *)
(* outcome open.  Every call is made with its callback argument.  In line  *)
(* with the cooperative model of the extractor (one awaited top-level      *)
(* operation at a time), the caller issues no call while the promise of a  *)
(* train() or a load(path) is pending or a save handler is running; calls  *)
(* during a pending capture or an active listen session are made freely.   *)
(***************************************************************************)
EXTENDS Integers, Sequences, FiniteSets, TLC

(* ---------------------------- bounds ----------------------------------- *)
MaxOrphans == 1     \* sessions left running on models that were replaced

(* ---------------------------- constants -------------------------------- *)
Epochs == 25        \* epochs: 25 in train()

Labels == {"a", "b"}
LabelOrder == <<"a", "b">>          \* the collaborator's vocabulary order
NoLabel == "undefined"              \* addExample(callback): label undefined
Losses == {123455, 1999995}         \* epoch losses, in millionths
NoNum == -1                         \* classify() without a number
Nums == {1, 2}                      \* class counts passed to classify()
ScoreVectors == {<<0, 1>>, <<1, 0>>, <<1, 1>>}  \* scores a result carries
OptVals == {"p1"}                   \* values of the key an options object carries
NoPath == "null"                    \* load() without a string
Paths == {"shipped", "saved"}       \* a path with artifacts made elsewhere, and
                                    \* the path where the caller puts what save() wrote
ShippedLabels == <<"a", "b">>       \* vocabulary of the artifacts made elsewhere

ErrNoExamples == "Add some examples before training!"
ErrNotClassifier == "SpeechCommands Feature Extraction has not been set to be a classifier."
ErrNoModel == "No model found."
ErrNoScores == "ERROR: Cannot find scores in result"
ErrListen == "ERROR: listen failed"
ErrType == "TypeError"
ErrCollab == "CollaboratorError"
NoErr == "none"

VARIABLES
  usageType,    \* this.usageType: "null" or "classifier"
  options,      \* this.options
  isPredicting, \* this.isPredicting
  model,        \* this.model: [kind, words]
  examples,     \* example store of the current transfer model: the labels
                \* that have examples (the keys of model.countExamples())
  trained,      \* the current model has been trained successfully
  wordLabels,   \* this.wordLabels: [defined, labels]
  sessions,     \* active capture / listen sessions of the audio collaborator
  training,     \* the train() call in flight, with its progress callbacks
                \* (labels: the example store, w: this.wordLabels at the call)
  load,         \* the load(path) call in flight
  save,         \* the save() call in flight, with the blobs it has written
  lastEvent     \* the last observable effect: a return, a throw or a callback

vars == <<usageType, options, isPredicting, model, examples, trained,
          wordLabels, sessions, training, load, save, lastEvent>>

(* ---------------------------- helpers ---------------------------------- *)
Min(a, b) == IF a < b THEN a ELSE b

Digit == <<"0", "1", "2", "3", "4", "5", "6", "7", "8", "9">>

RECURSIVE IntStr(_)
IntStr(n) == IF n < 10 THEN <<Digit[n + 1]>>
             ELSE IntStr(n \div 10) \o <<Digit[(n % 10) + 1]>>

RECURSIVE Pad(_, _)
Pad(s, w) == IF Len(s) >= w THEN s ELSE Pad(<<"0">> \o s, w)

\* Number.prototype.toFixed(d) of a loss given in millionths (d <= 6)
RECURSIVE Pow10(_)
Pow10(d) == IF d = 0 THEN 1 ELSE 10 * Pow10(d - 1)

ToFixed(x, d) ==
  LET unit == Pow10(6 - d)
      r == (x + (unit \div 2)) \div unit
  IN  IntStr(r \div Pow10(d)) \o <<".">> \o Pad(IntStr(r % Pow10(d)), d)

\* An observable effect of one step.  stopped: stopListening was called;
\* num: the number that came in (class count of classify, loss of an epoch);
\* str: the string or object handed out (<<"classes">>: an array of
\* classes); classes, topk: a classification
Event(op, kind, err) ==
  [op |-> op, kind |-> kind, err |-> err, stopped |-> FALSE, num |-> 0,
   str |-> <<>>, classes |-> <<>>, topk |-> 0]

NoWords == [defined |-> FALSE, labels |-> <<>>]
NoModel == [kind |-> "none", words |-> <<>>]
EmptyStore == {}

IdleTraining == [phase |-> "idle", epoch |-> 0, calls |-> 0,
                 nulls |-> 0, labels |-> {}, w |-> NoWords]
IdleLoad == [phase |-> "idle", path |-> NoPath]
IdleSave == [phase |-> "idle", trained |-> FALSE,
             writes |-> <<>>, cbCalls |-> 0, meta |-> <<>>]

\* a train() or load(path) promise is pending, or a save handler is running
Busy ==
  \/ training.phase = "running"
  \/ load.phase = "pending"
  \/ save.phase \in {"called", "model.json", "metadata.json"}

(* ---- the transfer recognizer (collaborator protocol, spec section 6) ---- *)

\* model.wordLabels(): the vocabulary of the model
ModelWordLabels(m, ex) ==
  IF m.kind = "loaded" THEN m.words
  ELSE SelectSeq(LabelOrder, LAMBDA l : l \in ex)

\* model.countExamples() is empty
CountIsEmpty(ex) == Cardinality(ex) <= 0

\* A session streams on the model it was started on: cur tells whether that
\* model is still this.model.

\* model.isListening() of this.model
IsListening(ss) == \E i \in 1..Len(ss) : ss[i].cur

\* model.stopListening() of this.model: ends what streams on it
StopListening(ss) == SelectSeq(ss, LAMBDA x : ~x.cur)

\* this.model is replaced: what streams on the old model keeps streaming
\* (the label of a capture on a model that is no longer used is dropped)
Orphaned(ss) == [i \in 1..Len(ss) |-> [ss[i] EXCEPT !.cur = FALSE, !.label = NoLabel]]

CollectSession(label) ==
  [cur |-> TRUE, kind |-> "collect", label |-> label, topk |-> 0]

ListenSession(topk) ==
  [cur |-> TRUE, kind |-> "listen", label |-> NoLabel, topk |-> topk]

RemoveAt(s, i) == [j \in 1..(Len(s) - 1) |-> IF j < i THEN s[j] ELSE s[j + 1]]

(* ---------------------------- Init ------------------------------------- *)
\* the state after the constructor, lines 18-36
Init ==
  /\ usageType = "null"
  /\ options = "unset"
  /\ isPredicting = FALSE
  /\ model = NoModel
  /\ examples = EmptyStore
  /\ trained = FALSE
  /\ wordLabels = NoWords
  /\ sessions = <<>>
  /\ training = IdleTraining
  /\ load = IdleLoad
  /\ save = IdleSave
  /\ lastEvent = Event("constructor", "return", NoErr)

(* ---------------------------- classification --------------------------- *)
\* classification keeping the transfer model it finds
ClassificationKeepsModel(opt) ==
  /\ ~Busy
  /\ usageType' = "classifier"
  /\ options' = IF opt \in OptVals THEN opt ELSE options
  /\ lastEvent' = Event("classification", "return", NoErr)
  /\ UNCHANGED <<isPredicting, model, examples, trained, wordLabels, sessions,
                 training, load, save>>

\* classification(options), lines 44-51.  opt is "nonobject", "empty" (an
\* object without the key) or the value the options object carries.
Classification(opt) ==
  /\ ~Busy
  /\ Len(sessions) <= MaxOrphans
  /\ usageType' = "classifier"
  /\ model' = [kind |-> "transfer", words |-> <<>>]
  /\ sessions' = Orphaned(sessions)
  /\ examples' = EmptyStore
  /\ trained' = FALSE
  /\ options' = IF opt \in OptVals THEN opt ELSE options
  /\ lastEvent' = Event("classification", "return", NoErr)
  /\ UNCHANGED <<isPredicting, wordLabels, training, load, save>>

(* ---------------------------- addExample ------------------------------- *)
\* addExampleInternal, line 72: stop the session that is active, if any
AddExampleStop(ss) == IF IsListening(ss) THEN StopListening(ss) ELSE ss

\* addExample(labelOrCallback, cb), lines 58-75, up to the await of the capture
AddExample(label) ==
  /\ ~Busy
  /\ IF model.kind = "none"
     THEN \* this.model is null: the call rejects, callCallback reports it
          /\ lastEvent' = Event("addExample", "callback", ErrType)
          /\ UNCHANGED sessions
     ELSE IF model.kind = "transfer" /\ label \in Labels
     THEN /\ sessions' = Append(AddExampleStop(sessions), CollectSession(label))
          /\ lastEvent' = [Event("addExample", "pending", NoErr)
                             EXCEPT !.stopped = AddExampleStop(sessions) # sessions]
     ELSE \* no label, or a model without an example store: capture is refused
          /\ sessions' = AddExampleStop(sessions)
          /\ lastEvent' = [Event("addExample", "callback", ErrCollab)
                             EXCEPT !.stopped = AddExampleStop(sessions) # sessions]
  /\ UNCHANGED <<usageType, options, isPredicting, model, examples, trained,
                 wordLabels, training, load, save>>

\* addExampleInternal returning the transfer model
AddExampleResultModel == <<"model">>

\* addExampleInternal, line 74: return this
AddExampleResult == <<"this">>

\* collectExample resolves: one example is stored, addExampleInternal
\* returns this (line 74) and callCallback hands it to the callback
CaptureDone(i) ==
  /\ i \in 1..Len(sessions)
  /\ sessions[i].kind = "collect"
  /\ sessions' = RemoveAt(sessions, i)
  /\ examples' = IF sessions[i].cur
                 THEN examples \cup {sessions[i].label}
                 ELSE examples
  /\ lastEvent' = [Event("addExample", "callback", NoErr)
                     EXCEPT !.str = AddExampleResult]
  /\ UNCHANGED <<usageType, options, isPredicting, model, trained, wordLabels,
                 training, load, save>>

\* collectExample rejects: the error reaches the callback
CaptureFail(i) ==
  /\ i \in 1..Len(sessions)
  /\ sessions[i].kind = "collect"
  /\ sessions' = RemoveAt(sessions, i)
  /\ lastEvent' = Event("addExample", "callback", ErrCollab)
  /\ UNCHANGED <<usageType, options, isPredicting, model, examples, trained,
                 wordLabels, training, load, save>>

(* ---------------------------- train ------------------------------------ *)
\* train without its example-count check
NoExamplesUnchecked(ex) == FALSE

\* train, line 85: the example count is missing or has no key
NoExamples(ex) == CountIsEmpty(ex)

\* train taking the labels of the base recognizer instead
TrainWordLabelsOfBase(m, ex) == LabelOrder

\* train, line 91: the labels taken over from the transfer model
TrainWordLabels(m, ex) == ModelWordLabels(m, ex)

\* onEpochEnd formatting the loss to 4 decimals
ProgressArgFixed4(loss) == ToFixed(loss, 4)

\* onEpochEnd, line 97: what the progress callback is given
ProgressArg(loss) == ToFixed(loss, 5)

\* train(onProgress), lines 83-92, up to the await of model.train
Train ==
  /\ ~Busy
  /\ IF model.kind = "none"
     THEN \* this.model is null
          /\ lastEvent' = Event("train", "throw", ErrType)
          /\ UNCHANGED <<isPredicting, wordLabels, training>>
     ELSE IF model.kind = "loaded"
     THEN \* a loaded model has no example store to count
          /\ lastEvent' = Event("train", "throw", ErrCollab)
          /\ UNCHANGED <<isPredicting, wordLabels, training>>
     ELSE IF NoExamples(examples)
     THEN /\ lastEvent' = Event("train", "throw", ErrNoExamples)
          /\ UNCHANGED <<isPredicting, wordLabels, training>>
     ELSE /\ isPredicting' = FALSE
          /\ IF usageType = "classifier"
             THEN /\ wordLabels' = [defined |-> TRUE,
                                    labels |-> TrainWordLabels(model, examples)]
                  /\ training' = [phase |-> "running", epoch |-> 0,
                                  calls |-> 0, nulls |-> 0,
                                  labels |-> examples, w |-> wordLabels]
                  /\ lastEvent' = Event("train", "pending", NoErr)
             ELSE /\ lastEvent' = Event("train", "resolve", NoErr)
                  /\ UNCHANGED <<wordLabels, training>>
  /\ UNCHANGED <<usageType, options, model, examples, trained, sessions,
                 load, save>>

\* onEpochEnd, lines 95-98: onProgress(logs.loss.toFixed(5))
OnEpochEnd(loss) ==
  /\ training.phase = "running"
  /\ training.epoch < Epochs
  /\ training' = [training EXCEPT !.epoch = @ + 1, !.calls = @ + 1]
  /\ lastEvent' = [Event("train", "progress", NoErr)
                     EXCEPT !.str = ProgressArg(loss), !.num = loss]
  /\ UNCHANGED <<usageType, options, isPredicting, model, examples, trained,
                 wordLabels, sessions, load, save>>

\* onTrainEnd, line 99: onProgress(null); model.train resolves
OnTrainEnd ==
  /\ training.phase = "running"
  /\ training.epoch = Epochs
  /\ training' = IdleTraining
  /\ trained' = TRUE
  /\ lastEvent' = [Event("train", "progress", NoErr) EXCEPT !.str = <<"null">>]
  /\ UNCHANGED <<usageType, options, isPredicting, model, examples,
                 wordLabels, sessions, load, save>>

\* model.train rejects: train() rejects, onTrainEnd is not reached
TrainFail ==
  /\ training.phase = "running"
  /\ training' = IdleTraining
  /\ lastEvent' = Event("train", "reject", ErrCollab)
  /\ UNCHANGED <<usageType, options, isPredicting, model, examples, trained,
                 wordLabels, sessions, load, save>>

(* ---------------------------- classify --------------------------------- *)
\* getTopKClassesFromArray(values, topK, CLASSES) of utils/gettopkclasses:
\* the topK highest values, clamped to the available labels, ranked by
\* descending value
RECURSIVE RankIdx(_, _)
RankIdx(values, rest) ==
  IF rest = {} THEN <<>>
  ELSE LET best == CHOOSE i \in rest :
                     \A j \in rest : values[i] > values[j]
                                     \/ (values[i] = values[j] /\ i <= j)
       IN  <<best>> \o RankIdx(values, rest \ {best})

GetTopKClassesFromArray(values, topK, classes) ==
  LET r == RankIdx(values, 1..Len(values))
      n == Min(Min(topK, Len(classes)), Len(values))
  IN  [i \in 1..n |-> [className |-> IF r[i] <= Len(classes) THEN classes[r[i]]
                                      ELSE NoLabel,
                       probability |-> values[r[i]]]]

\* classify without its usage-type check
NotClassifierUnchecked(u) == FALSE

\* classify, line 111: the usage type is not 'classifier'
NotClassifier(u) == u # "classifier"

\* classify taking missing word labels for an empty list
WordLabelsMissingUnchecked(wl) == FALSE

\* classify, line 115: this.wordLabels is undefined, .length throws
WordLabelsMissing(wl) == ~wl.defined

\* classify ignoring the number it is given
NumberOfClassesIgnored(num, wl) == Len(wl) + 1

\* classify(numOrCallback, cb), lines 115-127: the class count handed on
NumberOfClasses(num, wl) == IF num = NoNum THEN Len(wl) ELSE num

\* classifyInternal without the stop of the active session
ClassifyNoStop(ss) == ss

\* classifyInternal, line 131: stop the session that is active, if any
ClassifyStop(ss) == IF IsListening(ss) THEN StopListening(ss) ELSE ss

\* classify(numOrCallback, cb), lines 110-132 and 140-142; ok tells whether
\* the collaborator's listen() starts or rejects
Classify(num, ok) ==
  /\ ~Busy
  /\ IF NotClassifier(usageType)
     THEN /\ lastEvent' = Event("classify", "throw", ErrNotClassifier)
          /\ UNCHANGED sessions
     ELSE IF WordLabelsMissing(wordLabels)
     THEN \* this.wordLabels is undefined
          /\ lastEvent' = Event("classify", "throw", ErrType)
          /\ UNCHANGED sessions
     ELSE IF ok
     THEN /\ sessions' = Append(ClassifyStop(sessions),
                                ListenSession(NumberOfClasses(num, wordLabels.labels)))
          /\ lastEvent' = [Event("classify", "listening", NoErr)
                             EXCEPT !.topk = NumberOfClasses(num, wordLabels.labels),
                                    !.num = num,
                                    !.stopped = ClassifyStop(sessions) # sessions]
     ELSE /\ sessions' = ClassifyStop(sessions)
          /\ lastEvent' = [Event("classify", "callback", ErrListen)
                             EXCEPT !.stopped = ClassifyStop(sessions) # sessions]
  /\ UNCHANGED <<usageType, options, isPredicting, model, examples, trained,
                 wordLabels, training, load, save>>

\* the listener reporting a result without scores as a success
NoScoresErrorNull == NoErr

\* the listener, line 138: the error string for a result without scores
NoScoresError == ErrNoScores

\* what the collaborator emits: a result with or without scores
Results ==
  {[has |-> FALSE, scores |-> <<>>]} \cup
  {[has |-> TRUE, scores |-> v] : v \in ScoreVectors}

\* the listener of classifyInternal, lines 132-139, on one emitted result
OnResult(i, result) ==
  /\ i \in 1..Len(sessions)
  /\ sessions[i].kind = "listen"
  /\ IF result.has
     THEN lastEvent' =
            [Event("classify", "callback", NoErr) EXCEPT
               !.topk = sessions[i].topk,
               !.str = <<"classes">>,
               !.classes =
                 LET c == GetTopKClassesFromArray(result.scores, sessions[i].topk,
                                                  wordLabels.labels)
                 IN  [k \in 1..Len(c) |-> [label |-> c[k].className,
                                           confidence |-> c[k].probability]]]
     ELSE lastEvent' = [Event("classify", "callback", NoScoresError)
                          EXCEPT !.topk = sessions[i].topk]
  /\ UNCHANGED <<usageType, options, isPredicting, model, examples, trained,
                 wordLabels, sessions, training, load, save>>

(* ---------------------------- load ------------------------------------- *)
\* load taking whatever it is given for a path
IsPathAlways(path) == TRUE

\* load, line 146: typeof filesOrPath === 'string'
IsPath(path) == path # NoPath

\* load(filesOrPath, callback), lines 145-148 and 154
Load(path) ==
  /\ ~Busy
  /\ IF IsPath(path)
     THEN /\ Len(sessions) <= MaxOrphans
          /\ model' = [kind |-> "loaded", words |-> <<>>]
          /\ sessions' = Orphaned(sessions)
          /\ examples' = EmptyStore
          /\ trained' = FALSE
          /\ load' = [phase |-> "pending", path |-> path]
          /\ lastEvent' = Event("load", "pending", NoErr)
     ELSE /\ lastEvent' = [Event("load", "resolve", NoErr) EXCEPT !.str = <<model.kind>>]
          /\ UNCHANGED <<model, examples, trained, load, sessions>>
  /\ UNCHANGED <<usageType, options, isPredicting, wordLabels, training, save>>

\* the artifacts found under a path: what save() wrote, once both blobs
\* are there, or the artifacts made elsewhere
HasArtifacts(path) == path = "saved" => save.phase = "done"
ArtifactLabels(path) == IF path = "saved" THEN save.meta ELSE ShippedLabels

\* load making the extractor a classifier
LoadDoneAsClassifier ==
  /\ load.phase = "pending"
  /\ HasArtifacts(load.path)
  /\ usageType' = "classifier"
  /\ model' = [model EXCEPT !.words = ArtifactLabels(load.path)]
  /\ wordLabels' = [defined |-> TRUE, labels |-> ModelWordLabels(model', examples)]
  /\ load' = IdleLoad
  /\ lastEvent' = Event("load", "callback", NoErr)
  /\ UNCHANGED <<options, isPredicting, examples, trained, sessions,
                 training, save>>

\* ensureModelLoaded resolves, lines 149-152
LoadDone ==
  /\ load.phase = "pending"
  /\ HasArtifacts(load.path)
  /\ model' = [model EXCEPT !.words = ArtifactLabels(load.path)]
  /\ wordLabels' = [defined |-> TRUE, labels |-> ModelWordLabels(model', examples)]
  /\ load' = IdleLoad
  /\ lastEvent' = Event("load", "callback", NoErr)
  /\ UNCHANGED <<usageType, options, isPredicting, examples, trained, sessions,
                 training, save>>

\* ensureModelLoaded rejects: artifacts malformed or unreachable
LoadFail ==
  /\ load.phase = "pending"
  /\ load' = IdleLoad
  /\ lastEvent' = Event("load", "reject", ErrCollab)
  /\ UNCHANGED <<usageType, options, isPredicting, model, examples, trained,
                 wordLabels, sessions, training, save>>

(* ---------------------------- save ------------------------------------- *)
\* save without its model check
NoModelFoundUnchecked(m) == FALSE

\* save, line 158: there is no model
NoModelFound(m) == m.kind = "none"

\* save handler naming both blobs model.json
BlobNamesSame == <<"model.json", "model.json">>

\* save handler, lines 166-167: the names of the two blobs, in writing order
BlobNames == <<"model.json", "metadata.json">>

\* save(callback), lines 157-162: model.save is handed the handler, not awaited
Save ==
  /\ ~Busy
  /\ IF NoModelFound(model)
     THEN /\ lastEvent' = Event("save", "throw", ErrNoModel)
          /\ UNCHANGED save
     ELSE /\ save' = [phase |-> "called", trained |-> trained,
                      writes |-> <<>>, cbCalls |-> 0, meta |-> <<>>]
          /\ lastEvent' = Event("save", "resolve", NoErr)
  /\ UNCHANGED <<usageType, options, isPredicting, model, examples, trained,
                 wordLabels, sessions, training, load>>

\* the save handler starts, lines 162-166: metadata read, first blob begun
SaveHandler ==
  /\ save.phase = "called"
  /\ save' = [save EXCEPT !.phase = "model.json",
                          !.meta = ModelWordLabels(model, examples)]
  /\ lastEvent' = Event("save", "handler", NoErr)
  /\ UNCHANGED <<usageType, options, isPredicting, model, examples, trained,
                 wordLabels, sessions, training, load>>

\* model.save of a model that was never trained may refuse to serialize
SaveRefused ==
  /\ save.phase = "called"
  /\ ~save.trained
  /\ save' = IdleSave
  /\ lastEvent' = Event("save", "unhandled", ErrCollab)
  /\ UNCHANGED <<usageType, options, isPredicting, model, examples, trained,
                 wordLabels, sessions, training, load>>

\* saveBlob(.., 'model.json') resolves, lines 166-167: second blob begun
SaveModelWritten ==
  /\ save.phase = "model.json"
  /\ save' = [save EXCEPT !.phase = "metadata.json",
                          !.writes = Append(@, BlobNames[1])]
  /\ lastEvent' = Event("save", "written", NoErr)
  /\ UNCHANGED <<usageType, options, isPredicting, model, examples, trained,
                 wordLabels, sessions, training, load>>

\* save handler invoking the callback twice
SaveCallbackTwice(n) == n + 2

\* save handler, lines 169-171: callback() is invoked
SaveCallback(n) == n + 1

\* saveBlob(.., 'metadata.json') resolves, lines 167-171: callback
SaveMetaWritten ==
  /\ save.phase = "metadata.json"
  /\ save' = [save EXCEPT !.phase = "done", !.trained = FALSE,
                          !.writes = Append(@, BlobNames[2]),
                          !.cbCalls = SaveCallback(@)]
  /\ lastEvent' = Event("save", "callback", NoErr)
  /\ UNCHANGED <<usageType, options, isPredicting, model, examples, trained,
                 wordLabels, sessions, training, load>>

\* a saveBlob rejects: the handler stops where it is
SaveBlobFail ==
  /\ save.phase \in {"model.json", "metadata.json"}
  /\ save' = IdleSave
  /\ lastEvent' = Event("save", "unhandled", ErrCollab)
  /\ UNCHANGED <<usageType, options, isPredicting, model, examples, trained,
                 wordLabels, sessions, training, load>>

(* ---------------------------- specification ---------------------------- *)
Next ==
  \/ \E opt \in {"nonobject", "empty"} \cup OptVals : Classification(opt)
  \/ \E label \in Labels \cup {NoLabel} : AddExample(label)
  \/ \E i \in 1..MaxOrphans + 2 : CaptureDone(i)
  \/ \E i \in 1..MaxOrphans + 2 : CaptureFail(i)
  \/ Train
  \/ \E loss \in Losses : OnEpochEnd(loss)
  \/ OnTrainEnd
  \/ TrainFail
  \/ \E num \in {NoNum} \cup Nums, ok \in BOOLEAN : Classify(num, ok)
  \/ \E i \in 1..MaxOrphans + 2, result \in Results : OnResult(i, result)
  \/ \E path \in {NoPath} \cup Paths : Load(path)
  \/ LoadDone
  \/ LoadFail
  \/ Save
  \/ SaveHandler
  \/ SaveRefused
  \/ SaveModelWritten
  \/ SaveMetaWritten
  \/ SaveBlobFail

Spec == Init /\ [][Next]_vars

(* ---------------------------- properties ------------------------------- *)
\* the step is the synchronous part of a call of op
IsCall(op) ==
  /\ lastEvent'.op = op
  /\ lastEvent'.kind \in {"throw", "return", "resolve", "pending", "listening"}

HasListen(ss) == \E i \in 1..Len(ss) : ss[i].kind = "listen"
HasCollect(ss) == \E i \in 1..Len(ss) : ss[i].kind = "collect"

\* C1: a train() call that finds the example store of the current transfer
\* model empty throws 'Add some examples before training!'; the step
\* invokes no progress callback and does not start the collaborator's train.
C1_TrainEmptyStore ==
  [][(IsCall("train") /\ model.kind = "transfer" /\ examples = {})
       => /\ lastEvent' = Event("train", "throw", ErrNoExamples)
          /\ training'.phase # "running"
          /\ training' = training
          /\ wordLabels' = wordLabels]_vars

C1_Witness ==
  /\ lastEvent = Event("train", "throw", ErrNoExamples)
  /\ model.kind = "transfer"
  /\ examples = {}

\* C2: a classify() call made while the usage type is not 'classifier'
\* throws the 'not set to be a classifier' error: no session is stopped or
\* started, no result callback is invoked, no extractor state changes.
C2_ClassifyNotClassifier ==
  [][(IsCall("classify") /\ usageType # "classifier")
       => /\ lastEvent' = Event("classify", "throw", ErrNotClassifier)
          /\ sessions' = sessions
          /\ UNCHANGED <<usageType, options, isPredicting, model, examples, trained,
                         wordLabels, training, load, save>>]_vars

C2_Witness ==
  /\ lastEvent = Event("classify", "throw", ErrNotClassifier)
  /\ usageType # "classifier"
  /\ model.kind = "loaded"
  /\ wordLabels.defined

\* C9: a save() call made while there is no model throws 'No model found.',
\* writes no blob and invokes no completion callback; as long as there is no
\* model, nothing has been written.
C9_SaveNoModel ==
  [][/\ (IsCall("save") /\ model.kind = "none")
          => /\ lastEvent' = Event("save", "throw", ErrNoModel)
             /\ save' = save
     /\ model'.kind = "none"
          => save'.phase = "idle" /\ save'.writes = <<>> /\ save'.cbCalls = 0]_vars

C9_Witness ==
  /\ lastEvent = Event("save", "throw", ErrNoModel)
  /\ model.kind = "none"
  /\ save = IdleSave

CurrentSessions(ss) == SelectSeq(ss, LAMBDA x : x.cur)
NoOrphans(ss) == \A i \in 1..Len(ss) : ss[i].cur

\* C3: in a sequence of classify() and addExample() calls, a call that finds
\* a session active stops it before it starts its own: the model in use
\* never carries two sessions, a call made with at most one session active
\* leaves at most one active, and after a classify() call that started to
\* listen exactly its own session is active.
C3_SessionsNeverStack ==
  [][/\ Len(CurrentSessions(sessions')) <= 1
     /\ ((IsCall("classify") \/ IsCall("addExample"))
           /\ NoOrphans(sessions) /\ Len(sessions) <= 1)
          => /\ Len(sessions') <= 1
             /\ lastEvent'.kind \in {"listening", "pending"}
                  => lastEvent'.stopped = (Len(sessions) = 1)
             /\ lastEvent'.kind = "listening"
                  => sessions' = <<ListenSession(lastEvent'.topk)>>
             /\ lastEvent'.kind = "pending"
                  => Len(sessions') = 1 /\ sessions'[1].kind = "collect"]_vars

C3_Witness ==
  /\ lastEvent.op = "classify"
  /\ lastEvent.kind = "listening"
  /\ lastEvent.stopped
  /\ Len(sessions) = 1

\* C4: in every reachable state, no addExample() capture is pending while a
\* classification listen session is active.
C4_CollectionExcludesClassification ==
  ~(HasCollect(sessions) /\ HasListen(sessions))

\* C5: in no reachable state is the collaborator training while a
\* classification listen session is active.
C5_TrainingExcludesListening ==
  ~(training.phase = "running" /\ HasListen(sessions))

IsDigit(c) == \E d \in 1..10 : Digit[d] = c
DigitValue(c) == (CHOOSE d \in 1..10 : Digit[d] = c) - 1

\* s is a decimal string with exactly d digits after the point
FixedShape(s, d) ==
  /\ Len(s) >= d + 2
  /\ s[Len(s) - d] = "."
  /\ \A i \in 1..Len(s) : i # Len(s) - d => IsDigit(s[i])

\* the number a decimal string with 5 decimals denotes, in millionths
RECURSIVE DigitsValue(_)
DigitsValue(s) ==
  IF Len(s) = 0 THEN 0
  ELSE IF s[Len(s)] = "." THEN DigitsValue(SubSeq(s, 1, Len(s) - 1))
  ELSE 10 * DigitsValue(SubSeq(s, 1, Len(s) - 1)) + DigitValue(s[Len(s)])

Fixed5Value(s) == 10 * DigitsValue(s)

IsProgress == lastEvent'.op = "train" /\ lastEvent'.kind = "progress"

\* C6: during a train() in classifier mode the progress callback gets, once
\* per epoch, that epoch's loss as a string with 5 decimals, and no epoch
\* call follows the null call; the null call comes once, after Epochs epoch
\* calls, and ends the training.
C6_ProgressCallbacks ==
  [][/\ (IsProgress /\ lastEvent'.str # <<"null">>)
          => /\ training.phase = "running" /\ usageType = "classifier"
             /\ training.nulls = 0
             /\ training'.calls = training.calls + 1
             /\ training'.calls = training'.epoch
             /\ training'.calls <= Epochs
             /\ FixedShape(lastEvent'.str, 5)
             /\ Fixed5Value(lastEvent'.str) - lastEvent'.num \in -5..5
     /\ (IsProgress /\ lastEvent'.str = <<"null">>)
          => /\ training.phase = "running"
             /\ training.calls = Epochs
             /\ training.nulls = 0
             /\ training'.phase # "running"
     /\ (training.phase = "running" /\ training'.phase = "idle" /\ lastEvent'.err = NoErr)
          => IsProgress /\ lastEvent'.str = <<"null">> /\ training.calls = Epochs]_vars

C6_Witness ==
  /\ lastEvent.op = "train"
  /\ lastEvent.kind = "progress"
  /\ lastEvent.str = <<"null">>
  /\ training.phase = "idle"
  /\ trained

Range(s) == {s[i] : i \in 1..Len(s)}

\* C7: when a train() of the current transfer model succeeds, Word Labels
\* is exactly the set of distinct labels added with successful
\* addExample(label) calls before that train(): none missing, none extra,
\* none twice.
C7_WordLabelsAreAddedLabels ==
  [][(training.phase = "running" /\ IsProgress /\ lastEvent'.str = <<"null">>)
       => /\ wordLabels'.defined
          /\ Range(wordLabels'.labels) = training.labels
          /\ Len(wordLabels'.labels) = Cardinality(training.labels)
          /\ training.labels # {}]_vars

C7_Witness ==
  /\ lastEvent.op = "train"
  /\ lastEvent.kind = "progress"
  /\ lastEvent.str = <<"null">>
  /\ wordLabels.labels = <<"a">>
  /\ examples = {"a"}

NonIncreasing(c) == \A i \in 1..(Len(c) - 1) : c[i].confidence >= c[i + 1].confidence

\* C8: a result with scores reaches the result callback as at most
\* min(K, |Word Labels|) {label, confidence} pairs in non-increasing order of
\* confidence, K being the class count of the classify() call; a classify()
\* call without a number takes K = |Word Labels|.
C8_TopKResults ==
  [][/\ (lastEvent'.op = "classify" /\ lastEvent'.kind = "callback"
           /\ lastEvent'.err = NoErr)
          => /\ Len(lastEvent'.classes)
                  <= Min(lastEvent'.topk, Len(wordLabels'.labels))
             /\ NonIncreasing(lastEvent'.classes)
             /\ \E i \in 1..Len(sessions) :
                  sessions[i].kind = "listen" /\ sessions[i].topk = lastEvent'.topk
     /\ (lastEvent'.op = "classify" /\ lastEvent'.kind = "listening")
          => /\ sessions'[Len(sessions')].topk = lastEvent'.topk
             /\ lastEvent'.topk = IF lastEvent'.num = NoNum
                                  THEN Len(wordLabels.labels)
                                  ELSE lastEvent'.num]_vars

C8_Witness ==
  /\ lastEvent.op = "classify"
  /\ lastEvent.kind = "callback"
  /\ lastEvent.topk = 2
  /\ Len(wordLabels.labels) = 1
  /\ Len(lastEvent.classes) = 1

\* what the fairness of the collaborators guarantees: a save handler that
\* was handed over is run, and a blob write that was begun settles
LiveSpec ==
  Spec /\ WF_vars(SaveHandler) /\ WF_vars(SaveModelWritten) /\ WF_vars(SaveMetaWritten)

SaveEnded == lastEvent.op = "save" /\ lastEvent.kind \in {"callback", "unhandled"}

\* C10: a save() called after a successful train() returns without error,
\* and unless a blob write fails, model.json and then metadata.json get
\* written, exactly these two and each once.
C10_SaveWritesBoth ==
  /\ [][(IsCall("save") /\ trained /\ model.kind # "none")
          => lastEvent' = Event("save", "resolve", NoErr) /\ save'.phase = "called"]_vars
  /\ [](save.phase = "done" => save.writes = <<"model.json", "metadata.json">>)
  /\ ((save.phase = "called" /\ save.trained)
        ~> (SaveEnded /\ (lastEvent.err = NoErr => save.phase = "done")))

C10_Witness ==
  /\ save.phase = "done"
  /\ lastEvent = Event("save", "callback", NoErr)
  /\ trained
  /\ save.writes = <<"model.json", "metadata.json">>

\* C11: the artifacts of a save() of a trained model carry the Word Labels
\* sequence present immediately before that save() (Word Labels does not
\* change while the save runs), and a load(path) that succeeds on the
\* artifacts a save() produced leaves Word Labels equal to the sequence
\* they carry.
C11_RoundTrip ==
  [][/\ (save.phase = "called" /\ save'.phase = "model.json"
           /\ save.trained /\ wordLabels.defined)
          => save'.meta = wordLabels.labels
     /\ save.phase \in {"called", "model.json", "metadata.json"}
          => /\ wordLabels' = wordLabels
             /\ save'.phase # "idle" => save'.trained = save.trained
             /\ (save.phase # "called" /\ save'.phase # "idle")
                  => save'.meta = save.meta
     /\ (load.phase = "pending" /\ load.path = "saved"
           /\ lastEvent' = Event("load", "callback", NoErr))
          => /\ save.phase = "done"
             /\ wordLabels' = [defined |-> TRUE, labels |-> save.meta]]_vars

CollectCount(ss) == Len(SelectSeq(ss, LAMBDA x : x.kind = "collect"))

AddExampleCallback == lastEvent'.op = "addExample" /\ lastEvent'.kind = "callback"

C13_ClassificationResets ==
  [][/\ IsCall("classification")
          => /\ lastEvent' = Event("classification", "return", NoErr)
             /\ model' = [kind |-> "transfer", words |-> <<>>]
             /\ examples' = {}
             /\ ~trained'
             /\ ~IsListening(sessions')
     /\ (lastEvent.op = "classification" /\ IsCall("train"))
          => /\ lastEvent' = Event("train", "throw", ErrNoExamples)
             /\ training' = training
             /\ wordLabels' = wordLabels]_vars

C13_Witness ==
  /\ lastEvent = Event("train", "throw", ErrNoExamples)
  /\ model.kind = "transfer"
  /\ examples = {}
  /\ ~trained
  /\ save.phase = "done" /\ save.meta = <<"a">>
  /\ wordLabels = [defined |-> TRUE, labels |-> <<"a">>]

\* C14: Word Labels changes only with a train() or a load(path) that
\* succeeds: no other call or completion changes it, a train() or load(path)
\* that throws leaves it alone, and when a train() or a load(path) has
\* failed Word Labels is what it was before that call.
C14_WordLabelsFrame ==
  [][/\ lastEvent'.op \notin {"train", "load"} => wordLabels' = wordLabels
     /\ (lastEvent'.op \in {"train", "load"} /\ lastEvent'.kind = "throw")
          => wordLabels' = wordLabels
     /\ (lastEvent'.op = "load" /\ lastEvent'.kind \in {"resolve", "reject"})
          => wordLabels' = wordLabels
     /\ (lastEvent'.op = "train" /\ lastEvent'.kind = "reject")
          => wordLabels' = training.w]_vars

\* C15: the Listening Flag (isPredicting) is true in exactly the states in
\* which the audio collaborator streams, for a capture or for a
\* classification.
C15_ListeningFlag ==
  isPredicting <=> (HasCollect(sessions) \/ HasListen(sessions))

IsResultCallback ==
  /\ lastEvent'.op = "classify"
  /\ lastEvent'.kind = "callback"
  /\ lastEvent'.err # ErrListen

\* C16: a result emitted in a listen session reaches the result callback
\* either as (no error, class list) or as (the no-scores error string, no
\* result), never as both and never as neither; the step leaves every
\* session as it is, so the session that emitted a result without scores
\* goes on listening.
C16_ResultCallback ==
  [][IsResultCallback
       => /\ \/ /\ lastEvent'.err = NoErr
                /\ lastEvent'.str = <<"classes">>
             \/ /\ lastEvent'.err = ErrNoScores
                /\ lastEvent'.str = <<>>
                /\ lastEvent'.classes = <<>>
          /\ HasListen(sessions)
          /\ sessions' = sessions
          /\ UNCHANGED <<usageType, options, isPredicting, model, examples,
                         trained, wordLabels, training, load, save>>]_vars

C16_Witness ==
  /\ lastEvent.op = "classify"
  /\ lastEvent.kind = "callback"
  /\ lastEvent.err = ErrNoScores
  /\ lastEvent.str = <<>>
  /\ HasListen(sessions)

\* C17: the completion callback of save() is invoked at most once per
\* save(), by the step that ends the metadata.json write, with model.json
\* written before it; a save() in which a write fails ends without the
\* callback.
C17_SaveCallback ==
  [][/\ save'.cbCalls <= 1
     /\ (lastEvent'.op = "save" /\ lastEvent'.kind = "callback")
          => /\ save.phase = "metadata.json"
             /\ save.writes = <<"model.json">>
             /\ save.cbCalls = 0
             /\ save'.writes = <<"model.json", "metadata.json">>
             /\ save'.cbCalls = 1
             /\ save'.phase = "done"
     /\ save'.cbCalls # save.cbCalls
          => lastEvent'.op = "save" /\ lastEvent'.kind \in {"callback", "resolve", "unhandled"}
     /\ (lastEvent'.op = "save" /\ lastEvent'.kind = "unhandled")
          => /\ save.cbCalls = 0
             /\ save'.cbCalls = 0
             /\ save'.phase = "idle"
     /\ (save'.phase = "metadata.json" /\ save.phase # "metadata.json")
          => save.phase = "model.json" /\ save'.writes = <<"model.json">>
     /\ (save'.phase = "model.json" /\ save.phase # "model.json")
          => save.phase = "called" /\ save'.writes = <<>>]_vars

C17_Witness ==
  /\ lastEvent = Event("save", "callback", NoErr)
  /\ save.cbCalls = 1
  /\ save.writes = <<"model.json", "metadata.json">>
  /\ model.kind = "loaded"

\* C18: a load() call without a string resolves with the current model
\* reference (none when there is no model), raises nothing, invokes no
\* callback and changes neither the model, nor Word Labels, nor the usage
\* type, nor the options, nor anything else.
C18_LoadNoPath ==
  [][(IsCall("load") /\ load'.path = NoPath)
       => /\ lastEvent' = [Event("load", "resolve", NoErr) EXCEPT !.str = <<model.kind>>]
          /\ UNCHANGED <<usageType, options, isPredicting, model, examples,
                         trained, wordLabels, sessions, training, load, save>>]_vars

C18_Witness ==
  /\ lastEvent = [Event("load", "resolve", NoErr) EXCEPT !.str = <<"transfer">>]
  /\ model.kind = "transfer"
  /\ wordLabels.defined
  /\ options = "p1"

\* C19: the usage type changes only with a classification() call, to
\* 'classifier', and never changes back; a load leaves it alone, and a
\* classify() on an extractor that has loaded a model and never was made a
\* classifier throws the 'not set to be a classifier' error.
C19_UsageType ==
  [][/\ usageType' # usageType
          => IsCall("classification") /\ usageType' = "classifier"
     /\ usageType = "classifier" => usageType' = "classifier"
     /\ lastEvent'.op = "load" => usageType' = usageType
     /\ (IsCall("classify") /\ usageType = "null" /\ model.kind = "loaded"
           /\ wordLabels.defined)
          => lastEvent' = Event("classify", "throw", ErrNotClassifier)]_vars

C19_Witness ==
  /\ lastEvent = Event("classify", "throw", ErrNotClassifier)
  /\ usageType = "null"
  /\ model = [kind |-> "loaded", words |-> ShippedLabels]
  /\ wordLabels = [defined |-> TRUE, labels |-> ShippedLabels]
  /\ load = IdleLoad

\* C20: a classify() call starts a listen session only when Word Labels is
\* defined, which only a train() or a load(path) makes it; a classify() in
\* classifier mode with Word Labels undefined fails without stopping or
\* starting a session and without a result callback.
C20_ClassifyNeedsWordLabels ==
  [][/\ (lastEvent'.op = "classify" /\ lastEvent'.kind \in {"listening", "callback"})
          => wordLabels.defined
     /\ (~wordLabels.defined /\ wordLabels'.defined)
          => lastEvent'.op \in {"train", "load"}
     /\ (IsCall("classify") /\ usageType = "classifier" /\ ~wordLabels.defined)
          => /\ lastEvent' = Event("classify", "throw", ErrType)
             /\ sessions' = sessions
             /\ UNCHANGED <<usageType, options, isPredicting, model, examples,
                            trained, wordLabels, training, load, save>>]_vars

C20_Witness ==
  /\ lastEvent = Event("classify", "throw", ErrType)
  /\ usageType = "classifier"
  /\ ~wordLabels.defined
  /\ HasCollect(sessions)
  /\ IsListening(sessions)

====
